---- MODULE Spec2Model ----
(***************************************************************************)
(* Model of the nauta_migrations migration runner.                         *)
(*                                                                         *)
(*   src/nauta_migrations/migrate.py  MigrationManager (discovery, ledger, *)
(*                                    loader, apply, rollback, status)     *)
(*   src/nauta_migrations/cli.py      the commands migrate, rollback,      *)
(*                                    status and list                      *)
(*                                                                         *)
(* A unit (one migration file) is named by a number; the numeric order is  *)
(* the lexicographic order of the file names.  The ledger is the MongoDB   *)
(* collection "_migrations": a set of documents, each with its persisted   *)
(* identity _id, the unit's name and the time applied_at.                  *)
(***************************************************************************)
EXTENDS Integers, Sequences, FiniteSets, TLC

\* Number of migration files in the migrations directory.
NumUnits == 2
\* Largest value the wall clock (datetime.now()) is observed to return.
MaxTime == 1
\* Largest size of the ledger at which SpecApi still issues a direct call of
\* apply_migration (the calls of cli.py are not limited).
MaxEntries == 2

Units == 1..NumUnits
\* The units whose downgrade removes what their upgrade puts into the
\* database (as the index migration of src/migrations does); the downgrade of
\* the others returns without touching the database (the template's "pass").
ExactInverse == {u \in Units : u % 2 = 1}
Times == 0..MaxTime
NoUnit == 0

\* The processes running commands.  Spec runs MainRunner alone.
Runners == {"r1", "r2"}
MainRunner == "r1"

VARIABLES
    ledger,      \* documents of db["_migrations"]: [_id, name, applied_at]
    db,          \* the rest of the database: per unit, whether the effect
                 \* of its upgrade is in place
    pc,          \* per runner: the position inside the running command
    cmd,         \* per runner: the command it runs or ran last
    connected,   \* per runner: manager.client is open
    pending,     \* per runner: the list the migrate loop iterates over
    idx,         \* per runner: position of the loop in pending
    migration_name,   \* per runner: the argument of rollback_migration
    migration_record, \* per runner: the ledger document rollback selected
    outcome,     \* per runner: how the last command ended
    prev,        \* per runner: which command came before the current one,
                 \* and whether it succeeded
    trace,       \* per runner: what the current (or last) command did, in order
    effective,   \* units upgraded successfully and not successfully downgraded since
    ledgerFault, \* a ledger insert or delete has failed at some point
    directory,   \* migrations_dir: whether it exists, and its entries
    all_migrations, \* per runner: the list get_migration_files returned to
                 \* the list command or to a direct caller
    status_info, \* per runner: the dictionary get_status returned
    snapshot     \* the database and the ledger as they were before the
                 \* upgrade executed last, and how far the apply and the
                 \* rollback of that unit have come since

vars == <<ledger, db, pc, cmd, connected, pending, idx, migration_name,
          migration_record, outcome, prev, trace, effective, ledgerFault,
          directory, all_migrations, status_info, snapshot>>

NoRecord == [_id |-> 0, name |-> NoUnit, applied_at |-> 0]
NoOutcome == [op |-> "none", ok |-> TRUE, why |-> "none", unit |-> NoUnit]
NoPrev == [op |-> "none", ok |-> TRUE]
\* No list returned yet (NoUnit is not the name of a file).
NoFiles == <<NoUnit>>
NoStatus == [total |-> 0 - 1, applied |-> 0 - 1, pending |-> 0 - 1,
             applied_migrations |-> <<>>, pending_migrations |-> <<>>]
NoSnapshot == [stage |-> "none", unit |-> NoUnit,
               db |-> [u \in Units |-> FALSE], ledger |-> {}]

\* A directory entry.  name is the rank of the entry's name in the
\* lexicographic order of names (a unit's file has the unit's number);
\* starts tells how the name begins: "digit" as the names create_migration
\* makes, "." (hidden), "_" or "__".
Entry(n, f, x, p) == [name |-> n, is_file |-> f, suffix |-> x, starts |-> p]

MigrationFile(u) == Entry(u, TRUE, ".py", "digit")
\* __pycache__, the directory the loader leaves behind.
PyCache == Entry(NumUnits + 2, FALSE, "", "__")
\* The other entries a migrations directory is given in SpecDiscover:
\* __init__.py, _helpers.py, .draft.py, a text file, a directory named *.py.
AuxEntries ==
    {Entry(NumUnits + 1, TRUE, ".py", "__"),
     Entry(NumUnits + 3, TRUE, ".py", "_"),
     Entry(0 - 1, TRUE, ".py", "."),
     Entry(NumUnits + 4, TRUE, ".txt", "digit"),
     Entry(NumUnits + 5, FALSE, ".py", "digit")}

\* The directory of Spec: one file per unit, and __pycache__.
MigrationsDir ==
    [exists |-> TRUE, entries |-> {MigrationFile(u) : u \in Units} \cup {PyCache}]

\* The directories of SpecDiscover.
Directories ==
    {[exists |-> FALSE, entries |-> {}]} \cup
    {[exists |-> TRUE, entries |-> E] :
        E \in SUBSET ({MigrationFile(u) : u \in Units} \cup {PyCache} \cup AuxEntries)}

Event(e, u) == [ev |-> e, unit |-> u]

----------------------------------------------------------------------------
(* Pure helpers of MigrationManager.                                       *)

Min(S) == CHOOSE x \in S : \A y \in S : x <= y
Max(S) == CHOOSE x \in S : \A y \in S : x >= y

RECURSIVE SortAscending(_)
SortAscending(S) ==
    IF S = {} THEN <<>> ELSE <<Min(S)>> \o SortAscending(S \ {Min(S)})

RECURSIVE SortDescending(_)
SortDescending(S) ==
    IF S = {} THEN <<>> ELSE <<Max(S)>> \o SortDescending(S \ {Max(S)})

\* get_migration_files: the filter on the entries of the directory.
IsMigrationFile(f) == f.is_file /\ f.suffix = ".py" /\ f.starts # "__"

FileNames == {f.name : f \in {g \in directory.entries : IsMigrationFile(g)}}

\* get_migration_files: the .py files of the directory, sorted by name.
get_migration_files_descending ==
    IF ~directory.exists THEN <<>> ELSE SortDescending(FileNames)

get_migration_files ==
    IF ~directory.exists THEN <<>> ELSE SortAscending(FileNames)

\* collection.find().sort("applied_at", 1): every list of the documents in
\* ascending applied_at order; documents with equal applied_at may come in
\* either order.
RECURSIVE SortedByAppliedAt(_)
SortedByAppliedAt(docs) ==
    IF docs = {} THEN {<<>>}
    ELSE LET least == {m \in docs : \A o \in docs : m.applied_at <= o.applied_at}
         IN  UNION {{<<m>> \o rest : rest \in SortedByAppliedAt(docs \ {m})} : m \in least}

get_applied_migrations(docs) == SortedByAppliedAt(docs)

SeqRange(s) == {s[i] : i \in 1..Len(s)}

AppliedNames(applied) == {m.name : m \in SeqRange(applied)}

\* get_pending_migrations, given the list get_applied_migrations returned.
get_pending_migrations_unfiltered(applied) == get_migration_files

get_pending_migrations(applied) ==
    LET isPending(u) == u \notin AppliedNames(applied)
    IN  SelectSeq(get_migration_files, isPending)

\* The _id MongoDB gives a new document: different from every _id in the
\* collection and from every _id a runner still holds.
NewId ==
    LET used == {m._id : m \in ledger} \cup {migration_record[r]._id : r \in Runners}
    IN  Min({i \in 1..(Cardinality(used) + 1) : i \notin used})

LedgerNames == {m.name : m \in ledger}

\* get_status, given the list get_applied_migrations returned.
get_status_counts_swapped(applied) ==
    [total |-> Len(get_migration_files),
     applied |-> Len(get_pending_migrations(applied)),
     pending |-> Len(applied),
     applied_migrations |-> applied,
     pending_migrations |-> get_pending_migrations(applied)]

get_status(applied) ==
    [total |-> Len(get_migration_files),
     applied |-> Len(applied),
     pending |-> Len(get_pending_migrations(applied)),
     applied_migrations |-> applied,
     pending_migrations |-> get_pending_migrations(applied)]

----------------------------------------------------------------------------
Init ==
    /\ ledger = {}
    /\ db = [u \in Units |-> FALSE]
    /\ pc = [r \in Runners |-> "idle"]
    /\ cmd = [r \in Runners |-> "none"]
    /\ connected = [r \in Runners |-> FALSE]
    /\ pending = [r \in Runners |-> <<>>]
    /\ idx = [r \in Runners |-> 0]
    /\ migration_name = [r \in Runners |-> NoUnit]
    /\ migration_record = [r \in Runners |-> NoRecord]
    /\ outcome = [r \in Runners |-> NoOutcome]
    /\ prev = [r \in Runners |-> NoPrev]
    /\ trace = [r \in Runners |-> <<>>]
    /\ effective = {}
    /\ ledgerFault = FALSE
    /\ directory = MigrationsDir
    /\ all_migrations = [r \in Runners |-> NoFiles]
    /\ status_info = [r \in Runners |-> NoStatus]
    /\ snapshot = NoSnapshot

----------------------------------------------------------------------------
(* Commands.  Each runs as a sequence of steps; pc is the step that comes  *)
(* next.  An operation on MongoDB either returns or raises.                *)

Current(r) == pending[r][idx[r]]

Log(r, events) == trace' = [trace EXCEPT ![r] = trace[r] \o events]

\* A command starts.  Until it ends, outcome[r] is still the outcome of the
\* command before it.
Begin(r, c) ==
    /\ pc[r] = "idle"
    /\ cmd' = [cmd EXCEPT ![r] = c]
    /\ prev' = [prev EXCEPT ![r] = [op |-> outcome[r].op, ok |-> outcome[r].ok]]
    /\ trace' = [trace EXCEPT ![r] = <<>>]
    /\ snapshot' = IF snapshot.stage = "rolled_back" THEN NoSnapshot ELSE snapshot
    /\ UNCHANGED directory

\* The locals of the read-only command that ran before are gone.
Forget(r) ==
    /\ all_migrations' = [all_migrations EXCEPT ![r] = NoFiles]
    /\ status_info' = [status_info EXCEPT ![r] = NoStatus]

\* The steps inside a command leave the directory and the results of the
\* read-only commands alone.
Inside == UNCHANGED <<directory, all_migrations, status_info>>

\* snapshot after a step that executed unit code or wrote the ledger: the
\* step carries the apply-then-rollback of unit u from stage "from" to
\* stage "to", or it belongs to no such sequence.
Advance(from, to, u) ==
    snapshot' = IF snapshot.stage = from /\ snapshot.unit = u
                THEN [snapshot EXCEPT !.stage = to]
                ELSE NoSnapshot

\* A command ends: its locals are gone and, in the commands of cli.py, the
\* finally clause has called manager.disconnect().  A direct call of
\* apply_migration leaves the client open.
DoneWithoutFinally(r, c, ok, why, u) ==
    /\ pc' = [pc EXCEPT ![r] = "idle"]
    /\ outcome' = [outcome EXCEPT ![r] = [op |-> c, ok |-> ok, why |-> why, unit |-> u]]
    /\ connected' = [connected EXCEPT ![r] = (c = "apply" \/ ~ok)]
    /\ pending' = [pending EXCEPT ![r] = <<>>]
    /\ idx' = [idx EXCEPT ![r] = 0]
    /\ migration_name' = [migration_name EXCEPT ![r] = NoUnit]
    /\ migration_record' = [migration_record EXCEPT ![r] = NoRecord]

Done(r, c, ok, why, u) ==
    /\ pc' = [pc EXCEPT ![r] = "idle"]
    /\ outcome' = [outcome EXCEPT ![r] = [op |-> c, ok |-> ok, why |-> why, unit |-> u]]
    /\ connected' = [connected EXCEPT ![r] = (c = "apply")]
    /\ pending' = [pending EXCEPT ![r] = <<>>]
    /\ idx' = [idx EXCEPT ![r] = 0]
    /\ migration_name' = [migration_name EXCEPT ![r] = NoUnit]
    /\ migration_record' = [migration_record EXCEPT ![r] = NoRecord]

\* cli.migrate: connect, compute the pending list, return if it is empty.
migrate(r) ==
    /\ Begin(r, "migrate")
    /\ Forget(r)
    /\ UNCHANGED <<ledger, db, effective, ledgerFault>>
    /\ \/ Done(r, "migrate", FALSE, "read", NoUnit)       \* find() raises
       \/ \E applied \in get_applied_migrations(ledger) :
            LET p == get_pending_migrations(applied)
            IN  IF p = <<>>
                THEN Done(r, "migrate", TRUE, "nopending", NoUnit)
                ELSE /\ pc' = [pc EXCEPT ![r] = "load"]
                     /\ pending' = [pending EXCEPT ![r] = p]
                     /\ idx' = [idx EXCEPT ![r] = 1]
                     /\ connected' = [connected EXCEPT ![r] = TRUE]
                     /\ UNCHANGED <<migration_name, migration_record, outcome>>

\* A direct call manager.apply_migration(filepath): no look at the ledger.
apply_migration(r, u) ==
    /\ Begin(r, "apply")
    /\ Forget(r)
    /\ Cardinality(ledger) < MaxEntries
    /\ pc' = [pc EXCEPT ![r] = "load"]
    /\ pending' = [pending EXCEPT ![r] = <<u>>]
    /\ idx' = [idx EXCEPT ![r] = 1]
    /\ connected' = [connected EXCEPT ![r] = TRUE]
    /\ UNCHANGED <<ledger, db, effective, ledgerFault, migration_name, migration_record, outcome>>

\* cli.migrate, the for loop: what follows the return of apply_migration
\* for the i-th file of p.
ContinueAfterFailure(p, i, ok) ==
    IF i < Len(p) THEN "continue" ELSE "finish"

LoopNext(p, i, ok) ==
    IF ~ok THEN "abort"
    ELSE IF i < Len(p) THEN "continue" ELSE "finish"

\* apply_migration returned ok for the current file.
Returned(r, ok, why) ==
    LET nxt == LoopNext(pending[r], idx[r], ok)
    IN  IF nxt = "continue"
        THEN /\ pc' = [pc EXCEPT ![r] = "load"]
             /\ idx' = [idx EXCEPT ![r] = idx[r] + 1]
             /\ UNCHANGED <<pending, connected, migration_name, migration_record, outcome>>
        ELSE Done(r, cmd[r], nxt = "finish", why, Current(r))

\* apply_migration: "if not migration: return False".
LoadFailedIgnored(r) ==
    /\ pc' = [pc EXCEPT ![r] = "upgrade"]
    /\ UNCHANGED <<pending, idx, connected, migration_name, migration_record, outcome>>

LoadFailed(r) == Returned(r, FALSE, "load")

\* apply_migration: migration = self.load_migration(filepath).
apply_load(r) ==
    /\ pc[r] = "load"
    /\ Inside
    /\ UNCHANGED <<ledger, db, effective, ledgerFault, cmd, prev, snapshot>>
    /\ \/ /\ Log(r, <<Event("load", Current(r))>>)        \* an instance
          /\ pc' = [pc EXCEPT ![r] = "upgrade"]
          /\ UNCHANGED <<pending, idx, connected, migration_name, migration_record, outcome>>
       \/ /\ Log(r, <<Event("load", Current(r)), Event("fail", Current(r))>>)
          /\ LoadFailed(r)                                 \* None

\* apply_migration: upgrade() raised, "except Exception: return False".
UpgradeRaisedSwallowed(r) ==
    /\ pc' = [pc EXCEPT ![r] = "record"]
    /\ UNCHANGED <<pending, idx, connected, migration_name, migration_record, outcome>>

UpgradeRaised(r) == Returned(r, FALSE, "execute")

\* What an upgrade that returns makes of unit u's effect: in place, whether
\* or not it was there before (as the index migration of src/migrations).
Upgraded(u, present) == TRUE

\* apply_migration: migration.upgrade().
apply_upgrade(r) ==
    /\ pc[r] = "upgrade"
    /\ Inside
    /\ UNCHANGED <<ledger, ledgerFault, cmd, prev>>
    /\ \/ /\ db' = [db EXCEPT ![Current(r)] = Upgraded(Current(r), @)]  \* returns
          /\ snapshot' = [stage |-> "upgraded", unit |-> Current(r),
                          db |-> db, ledger |-> ledger]
          /\ effective' = effective \cup {Current(r)}
          /\ Log(r, <<Event("upgrade", Current(r))>>)
          /\ pc' = [pc EXCEPT ![r] = "record"]
          /\ UNCHANGED <<pending, idx, connected, migration_name, migration_record, outcome>>
       \/ /\ Log(r, <<Event("upgrade", Current(r)), Event("fail", Current(r))>>)
          /\ UpgradeRaised(r)                              \* raises
          /\ snapshot' = NoSnapshot
          /\ UNCHANGED <<db, effective>>

\* The document apply_migration inserts for unit u at time t.  Its name is
\* filepath.name, the name get_pending_migrations compares with; the variant
\* stores under "name" what belongs under "version" (filepath.stem), the
\* name of no file.
LedgerEntryNamedByStem(u, t) == [_id |-> NewId, name |-> 0 - u, applied_at |-> t]

LedgerEntry(u, t) == [_id |-> NewId, name |-> u, applied_at |-> t]

\* apply_migration: insert_one raised, "except Exception: return False".
RecordFailedIgnored(r) == Returned(r, TRUE, "record")

RecordFailed(r) == Returned(r, FALSE, "record")

\* apply_migration: collection.insert_one({...}); return True.
apply_record(r) ==
    /\ pc[r] = "record"
    /\ Inside
    /\ UNCHANGED <<db, effective, cmd, prev>>
    /\ \/ \E t \in Times :                                 \* returns
            /\ ledger' = ledger \cup {LedgerEntry(Current(r), t)}
            /\ Advance("upgraded", "applied", Current(r))
            /\ Log(r, <<Event("record", Current(r))>>)
            /\ Returned(r, TRUE, "done")
            /\ UNCHANGED ledgerFault
       \/ /\ ledgerFault' = TRUE                           \* raises
          /\ Log(r, <<Event("fail", Current(r))>>)
          /\ RecordFailed(r)
          /\ snapshot' = NoSnapshot
          /\ UNCHANGED ledger

\* rollback_migration: the document to revert, NoRecord if there is none.
\* name = NoUnit is the call without a migration name.
NamedRecord(applied, name) ==
    IF \E i \in 1..Len(applied) : applied[i].name = name
    THEN applied[Min({i \in 1..Len(applied) : applied[i].name = name})]
    ELSE NoRecord

SelectFirstApplied(applied, name) ==
    IF name = NoUnit THEN applied[1] ELSE NamedRecord(applied, name)

SelectRecordOrLast(applied, name) ==
    IF name = NoUnit \/ NamedRecord(applied, name) = NoRecord
    THEN applied[Len(applied)]
    ELSE NamedRecord(applied, name)

SelectRecord(applied, name) ==
    IF name = NoUnit
    THEN applied[Len(applied)]
    ELSE NamedRecord(applied, name)

\* cli.rollback and rollback_migration up to the selection of the record.
rollback(r, name) ==
    /\ Begin(r, "rollback")
    /\ Forget(r)
    /\ UNCHANGED <<ledger, db, effective, ledgerFault>>
    /\ \/ Done(r, "rollback", FALSE, "read", name)        \* find() raises
       \/ \E applied \in get_applied_migrations(ledger) :
            IF applied = <<>>
            THEN Done(r, "rollback", FALSE, "empty", name)
            ELSE IF SelectRecord(applied, name) = NoRecord
            THEN Done(r, "rollback", FALSE, "notfound", name)
            ELSE /\ pc' = [pc EXCEPT ![r] = "rb_load"]
                 /\ migration_record' =
                        [migration_record EXCEPT ![r] = SelectRecord(applied, name)]
                 /\ migration_name' = [migration_name EXCEPT ![r] = name]
                 /\ connected' = [connected EXCEPT ![r] = TRUE]
                 /\ UNCHANGED <<pending, idx, outcome>>

Target(r) == migration_record[r].name

\* rollback_migration: migration = self.load_migration(filepath).
rollback_load(r) ==
    /\ pc[r] = "rb_load"
    /\ Inside
    /\ UNCHANGED <<ledger, db, effective, ledgerFault, cmd, prev, snapshot>>
    /\ \/ /\ Log(r, <<Event("load", Target(r))>>)
          /\ pc' = [pc EXCEPT ![r] = "rb_downgrade"]
          /\ UNCHANGED <<pending, idx, connected, migration_name, migration_record, outcome>>
       \/ /\ Log(r, <<Event("load", Target(r)), Event("fail", Target(r))>>)
          /\ Done(r, "rollback", FALSE, "load", Target(r))

\* What a downgrade that returns leaves of unit u's effect.
Downgraded(u, present) ==
    IF u \in ExactInverse THEN FALSE ELSE present

\* rollback_migration: downgrade() raised, "except Exception: return False".
DowngradeRaisedSwallowed(r) ==
    /\ pc' = [pc EXCEPT ![r] = "rb_erase"]
    /\ UNCHANGED <<pending, idx, connected, migration_name, migration_record, outcome>>

DowngradeRaised(r) == Done(r, "rollback", FALSE, "execute", Target(r))

\* rollback_migration: migration.downgrade().
rollback_downgrade(r) ==
    /\ pc[r] = "rb_downgrade"
    /\ Inside
    /\ UNCHANGED <<ledger, ledgerFault, cmd, prev>>
    /\ \/ /\ db' = [db EXCEPT ![Target(r)] = Downgraded(Target(r), @)]
          /\ Advance("applied", "downgraded", Target(r))
          /\ effective' = effective \ {Target(r)}
          /\ Log(r, <<Event("downgrade", Target(r))>>)
          /\ pc' = [pc EXCEPT ![r] = "rb_erase"]
          /\ UNCHANGED <<pending, idx, connected, migration_name, migration_record, outcome>>
       \/ /\ Log(r, <<Event("downgrade", Target(r)), Event("fail", Target(r))>>)
          /\ DowngradeRaised(r)
          /\ snapshot' = NoSnapshot
          /\ UNCHANGED <<db, effective>>

\* collection.delete_one({"_id": migration_record["_id"]}).
delete_none(docs, id) == docs

delete_by_name(docs, id) ==
    {m \in docs : \A t \in docs : t._id = id => m.name # t.name}

delete_one(docs, id) == {m \in docs : m._id # id}

\* rollback_migration: delete the record; return True.
rollback_erase(r) ==
    /\ pc[r] = "rb_erase"
    /\ Inside
    /\ UNCHANGED <<db, effective, cmd, prev>>
    /\ \/ /\ ledger' = delete_one(ledger, migration_record[r]._id)
          /\ Advance("downgraded", "rolled_back", Target(r))
          /\ Log(r, <<Event("erase", Target(r))>>)
          /\ Done(r, "rollback", TRUE, "done", Target(r))
          /\ UNCHANGED ledgerFault
       \/ /\ ledgerFault' = TRUE
          /\ Log(r, <<Event("fail", Target(r))>>)
          /\ Done(r, "rollback", FALSE, "erase", Target(r))
          /\ snapshot' = NoSnapshot
          /\ UNCHANGED ledger

\* cli.status: manager.connect().
status(r) ==
    /\ Begin(r, "status")
    /\ Forget(r)
    /\ pc' = [pc EXCEPT ![r] = "get_status"]
    /\ connected' = [connected EXCEPT ![r] = TRUE]
    /\ UNCHANGED <<ledger, db, effective, ledgerFault, pending, idx,
                   migration_name, migration_record, outcome>>

\* cli.status: status_info = manager.get_status(), the echoes, disconnect.
status_read(r) ==
    /\ pc[r] = "get_status"
    /\ UNCHANGED <<ledger, db, effective, ledgerFault, cmd, prev, trace,
                   directory, all_migrations, snapshot>>
    /\ \/ /\ Done(r, "status", FALSE, "read", NoUnit)    \* find() raises
          /\ UNCHANGED status_info
       \/ \E applied \in get_applied_migrations(ledger) :
            /\ status_info' = [status_info EXCEPT ![r] = get_status(applied)]
            /\ Done(r, "status", TRUE, "done", NoUnit)

\* cli.list: manager.connect().
list(r) ==
    /\ Begin(r, "list")
    /\ Forget(r)
    /\ pc' = [pc EXCEPT ![r] = "list_files"]
    /\ connected' = [connected EXCEPT ![r] = TRUE]
    /\ UNCHANGED <<ledger, db, effective, ledgerFault, pending, idx,
                   migration_name, migration_record, outcome>>

\* cli.list: all_migrations = manager.get_migration_files(), the applied
\* names, the echoes, disconnect.
list_read(r) ==
    /\ pc[r] = "list_files"
    /\ UNCHANGED <<ledger, db, effective, ledgerFault, cmd, prev, trace,
                   directory, status_info, snapshot>>
    /\ all_migrations' = [all_migrations EXCEPT ![r] = get_migration_files]
    /\ \/ Done(r, "list", FALSE, "read", NoUnit)          \* find() raises
       \/ IF get_migration_files = <<>>
          THEN Done(r, "list", TRUE, "nomigrations", NoUnit)
          ELSE Done(r, "list", TRUE, "done", NoUnit)

\* A direct call manager.get_migration_files().
discover(r) ==
    /\ pc[r] = "idle"
    /\ all_migrations' = [all_migrations EXCEPT ![r] = get_migration_files]
    /\ UNCHANGED <<ledger, db, pc, cmd, connected, pending, idx, migration_name,
                   migration_record, outcome, prev, trace, effective,
                   ledgerFault, directory, status_info, snapshot>>

\* What apply_migration prints before it returns False: load_migration's
\* message when no instance was made, else the message of the except clause,
\* the same for a raising upgrade and a raising insert_one.
Printed(why) ==
    IF why = "load" THEN "Error cargando migracion" ELSE "Error aplicando migracion"

\* What the caller of apply_migration has once a run has halted: the file
\* it passed, the boolean returned and the line printed.
Received(r) ==
    [unit |-> outcome[r].unit, ok |-> outcome[r].ok, printed |-> Printed(outcome[r].why)]

----------------------------------------------------------------------------
(* Spec: one runner issuing the commands of cli.py one after the other.    *)
(* SpecApi: the same, and direct calls of MigrationManager.apply_migration.*)

Next ==
    \/ migrate(MainRunner)
    \/ apply_load(MainRunner)
    \/ apply_upgrade(MainRunner)
    \/ apply_record(MainRunner)
    \/ \E name \in Units \cup {NoUnit} : rollback(MainRunner, name)
    \/ rollback_load(MainRunner)
    \/ rollback_downgrade(MainRunner)
    \/ rollback_erase(MainRunner)

Spec == Init /\ [][Next]_vars

NextApi ==
    \/ Next
    \/ \E u \in Units : apply_migration(MainRunner, u)

SpecApi == Init /\ [][NextApi]_vars

\* SpecCli: Spec and the two read-only commands of cli.py.
NextCli ==
    \/ Next
    \/ status(MainRunner)
    \/ status_read(MainRunner)
    \/ list(MainRunner)
    \/ list_read(MainRunner)

SpecCli == Init /\ [][NextCli]_vars

\* SpecConc: two processes, each issuing one migrate command against the
\* same database and the same directory; their steps interleave.
NextConc ==
    \E r \in Runners :
        \/ cmd[r] = "none" /\ migrate(r)
        \/ apply_load(r)
        \/ apply_upgrade(r)
        \/ apply_record(r)

SpecConc == Init /\ [][NextConc]_vars

\* The document a step inserts has a later applied_at than every document
\* in the ledger.  The code compares timestamps only among the documents in
\* the ledger (the sort of get_applied_migrations), so this is what a
\* strictly increasing clock amounts to: the documents in the ledger are
\* ordered by applied_at as they were inserted, without ties.
LaterThanLedger ==
    \A m \in ledger' \ ledger : \A o \in ledger : m.applied_at > o.applied_at

\* SpecMonotone: one runner issuing migrate commands and rollback commands
\* without a migration name, under a strictly increasing clock.
NextMonotone ==
    \/ migrate(MainRunner)
    \/ apply_load(MainRunner)
    \/ apply_upgrade(MainRunner)
    \/ apply_record(MainRunner) /\ LaterThanLedger
    \/ rollback(MainRunner, NoUnit)
    \/ rollback_load(MainRunner)
    \/ rollback_downgrade(MainRunner)
    \/ rollback_erase(MainRunner)

SpecMonotone == Init /\ [][NextMonotone]_vars

\* SpecDiscover: get_migration_files called on a directory that is missing
\* or holds any of the entries of Directories.
InitDiscover ==
    /\ directory \in Directories
    /\ ledger = {}
    /\ db = [u \in Units |-> FALSE]
    /\ pc = [r \in Runners |-> "idle"]
    /\ cmd = [r \in Runners |-> "none"]
    /\ connected = [r \in Runners |-> FALSE]
    /\ pending = [r \in Runners |-> <<>>]
    /\ idx = [r \in Runners |-> 0]
    /\ migration_name = [r \in Runners |-> NoUnit]
    /\ migration_record = [r \in Runners |-> NoRecord]
    /\ outcome = [r \in Runners |-> NoOutcome]
    /\ prev = [r \in Runners |-> NoPrev]
    /\ trace = [r \in Runners |-> <<>>]
    /\ effective = {}
    /\ ledgerFault = FALSE
    /\ all_migrations = [r \in Runners |-> NoFiles]
    /\ status_info = [r \in Runners |-> NoStatus]
    /\ snapshot = NoSnapshot

NextDiscover == discover(MainRunner)

SpecDiscover == InitDiscover /\ [][NextDiscover]_vars

----------------------------------------------------------------------------
(* Vocabulary of the properties.                                           *)

R == MainRunner

Last(s) == s[Len(s)]

Quiescent == \A r \in Runners : pc[r] = "idle"

\* S is the set of the first K units in name order, for some K >= 0.
IsPrefix(S) == \E K \in 0..NumUnits : S = {u \in Units : u <= K}

Happened(r, e, u) == \E i \in 1..Len(trace[r]) : trace[r][i] = Event(e, u)

\* The step taken is one in which a load, an upgrade, a downgrade or a
\* ledger write of runner r failed.
FailStep(r) ==
    /\ Len(trace'[r]) > Len(trace[r])
    /\ Last(trace'[r]).ev = "fail"

InApply(r) == pc[r] \in {"load", "upgrade", "record"}
InRollback(r) == pc[r] \in {"rb_load", "rb_downgrade", "rb_erase"}

----------------------------------------------------------------------------
\* C1 (as stated): whenever a batch-apply run has just ended, completed or
\* halted, the names in the ledger are the first K units in name order.
\* (Checked for the runs that got as far as loading a unit.)
C1_PrefixAfterAnyBatch ==
    (pc[R] = "idle" /\ cmd[R] = "migrate" /\ trace[R] # <<>>) => IsPrefix(LedgerNames)

\* C1 (amended): no step of a batch-apply run that finds the ledger's names
\* a prefix of the name order takes them out of it, so a run that starts
\* from a prefix ends, completed or halted, in a prefix.
C1_BatchKeepsPrefix ==
    [][(cmd'[R] = "migrate" /\ IsPrefix(LedgerNames)) => IsPrefix(LedgerNames')]_vars

\* A run recorded unit 1 and halted when the upgrade of unit 2 raised.
C1_Witness ==
    /\ pc[R] = "idle" /\ cmd[R] = "migrate"
    /\ outcome[R] = [op |-> "migrate", ok |-> FALSE, why |-> "execute", unit |-> 2]
    /\ Happened(R, "record", 1)
    /\ LedgerNames = {1}

C3_AtMostOneEntryPerName ==
    \A m1, m2 \in ledger : m1.name = m2.name => m1 = m2

NoWork(t) == \A i \in 1..Len(t) : t[i].ev \notin {"upgrade", "record"}

\* C4 (as stated): a batch-apply run that directly follows a batch-apply run
\* executes no upgrade and writes no ledger entry.
C4_SecondRunDoesNothing ==
    (cmd[R] = "migrate" /\ prev[R].op = "migrate") => NoWork(trace[R])

\* C4 (amended): a batch-apply run that directly follows a batch-apply run
\* that ended without failure executes no upgrade and writes no ledger entry.
C4_RunAfterSuccessDoesNothing ==
    (cmd[R] = "migrate" /\ prev[R].op = "migrate" /\ prev[R].ok) => NoWork(trace[R])

\* The second of two runs has ended; the first had applied every unit.
C4_Witness ==
    /\ pc[R] = "idle" /\ cmd[R] = "migrate"
    /\ prev[R] = [op |-> "migrate", ok |-> TRUE]
    /\ outcome[R].ok /\ outcome[R].why = "nopending"
    /\ LedgerNames = Units

IsWork(e) == e.ev # "fail"
Work(t) == SelectSeq(t, IsWork)
Phase(i) == <<"load", "upgrade", "record">>[((i - 1) % 3) + 1]

\* C5: what a batch-apply run does is load, upgrade, record for one unit
\* after the other, the units in strictly ascending name order; when the run
\* turns to a unit, every unit before it in the pending list is in the ledger.
C5_Ordering ==
    cmd[R] = "migrate" =>
        LET T == Work(trace[R])
        IN  /\ \A i \in 1..Len(T) : T[i].ev = Phase(i)
            /\ \A i \in 2..Len(T) :
                   IF Phase(i) = "load"
                   THEN T[i].unit > T[i - 1].unit
                   ELSE T[i].unit = T[i - 1].unit
            /\ InApply(R) =>
                   /\ \A i, j \in 1..Len(pending[R]) : i < j => pending[R][i] < pending[R][j]
                   /\ \A j \in 1..(idx[R] - 1) : pending[R][j] \in LedgerNames
                   /\ \A j \in idx[R]..Len(pending[R]) : pending[R][j] \notin LedgerNames
                   /\ \A i \in 1..Len(T) : T[i].unit = pending[R][(i + 2) \div 3]

\* A run applied unit 1 and then unit 2.
C5_Witness ==
    /\ pc[R] = "idle" /\ cmd[R] = "migrate" /\ outcome[R].ok
    /\ trace[R] = <<Event("load", 1), Event("upgrade", 1), Event("record", 1),
                    Event("load", 2), Event("upgrade", 2), Event("record", 2)>>

\* C6: the step of a batch-apply run in which apply_migration fails ends the
\* run with failure: the ledger is as before the step, the earlier units of
\* the run are in it, and the later units of the run are neither in it nor
\* loaded.
C6_HaltAtFirstFailure ==
    [][(cmd[R] = "migrate" /\ InApply(R) /\ FailStep(R)) =>
          /\ pc'[R] = "idle"
          /\ ~outcome'[R].ok /\ outcome'[R].unit = Current(R)
          /\ ledger' = ledger
          /\ \A j \in 1..Len(pending[R]) :
                /\ j < idx[R] => pending[R][j] \in LedgerNames'
                /\ j > idx[R] =>
                      /\ pending[R][j] \notin LedgerNames'
                      /\ \A i \in 1..Len(trace'[R]) : trace'[R][i].unit # pending[R][j]
      ]_vars

\* A run halted at unit 1, whose upgrade raised; unit 2 was not touched.
C6_Witness ==
    /\ pc[R] = "idle" /\ cmd[R] = "migrate"
    /\ trace[R] = <<Event("load", 1), Event("upgrade", 1), Event("fail", 1)>>
    /\ ~outcome[R].ok
    /\ 2 \notin LedgerNames

\* C7: the step in which a unit's upgrade raises ends apply_migration with
\* failure and without a ledger entry for the unit; a batch-apply run started
\* next computes a pending list that begins with that unit and turns to it
\* first (unless it cannot read the ledger).
C7_ExecuteFailure ==
    [][/\ (pc[R] = "upgrade" /\ FailStep(R)) =>
             /\ ledger' = ledger
             /\ Current(R) \notin LedgerNames'
             /\ pc'[R] = "idle"
             /\ outcome'[R] = [op |-> cmd[R], ok |-> FALSE,
                               why |-> "execute", unit |-> Current(R)]
       /\ (/\ pc[R] = "idle" /\ cmd'[R] = "migrate" /\ pc'[R] # "idle"
           /\ outcome[R].op = "migrate" /\ outcome[R].why = "execute") =>
             /\ pc'[R] = "load"
             /\ idx'[R] = 1
             /\ pending'[R][1] = outcome[R].unit
       /\ (/\ pc[R] = "idle" /\ cmd'[R] = "migrate" /\ pc'[R] = "idle"
           /\ outcome[R].op = "migrate" /\ outcome[R].why = "execute"
           /\ outcome'[R] # outcome[R]) =>
             outcome'[R].why = "read"
      ]_vars

\* The upgrade of unit 2 raised in one run; the next run is about to load it.
C7_Witness ==
    /\ pc[R] = "load" /\ cmd[R] = "migrate"
    /\ outcome[R] = [op |-> "migrate", ok |-> FALSE, why |-> "execute", unit |-> 2]
    /\ pending[R] = <<2>> /\ idx[R] = 1
    /\ LedgerNames = {1}

\* C8: the step in which a unit fails to load, in apply_migration or in
\* rollback_migration, ends the command with failure "load"; neither the
\* ledger nor the database changes and nothing but the load was attempted.
C8_LoadFailure ==
    [][((InApply(R) \/ InRollback(R)) /\ pc[R] \in {"load", "rb_load"} /\ FailStep(R)) =>
          LET u == IF pc[R] = "load" THEN Current(R) ELSE Target(R)
          IN  /\ ledger' = ledger /\ db' = db /\ effective' = effective
              /\ pc'[R] = "idle"
              /\ outcome'[R] = [op |-> cmd[R], ok |-> FALSE, why |-> "load", unit |-> u]
              /\ trace'[R] = trace[R] \o <<Event("load", u), Event("fail", u)>>
      ]_vars

\* A batch-apply run stopped at unit 1, which did not load.
C8_Witness ==
    /\ pc[R] = "idle" /\ cmd[R] = "migrate"
    /\ outcome[R] = [op |-> "migrate", ok |-> FALSE, why |-> "load", unit |-> 1]
    /\ trace[R] = <<Event("load", 1), Event("fail", 1)>>
    /\ ledger = {}

\* C9: the document rollback_migration works on is in the ledger; without a
\* name no document of the ledger has a later applied_at, and with a name the
\* document carries that name.
C9_RollbackTarget ==
    InRollback(R) =>
        /\ migration_record[R] \in ledger
        /\ IF migration_name[R] = NoUnit
           THEN \A m \in ledger : m.applied_at <= migration_record[R].applied_at
           ELSE migration_record[R].name = migration_name[R]

\* Two entries applied at different times; rollback without a name has
\* selected the later one.
C9_Witness ==
    /\ pc[R] = "rb_load" /\ migration_name[R] = NoUnit
    /\ \E m \in ledger : m.applied_at < migration_record[R].applied_at

\* C10: a call of rollback_migration that finds the ledger empty, or finds no
\* entry of the name it was given, ends at once with failure: nothing is
\* loaded or executed, and ledger and database are unchanged.
C10_SelectionErrors ==
    [][LET given == IF pc'[R] = "idle" THEN outcome'[R].unit ELSE migration_name'[R]
       IN  (/\ pc[R] = "idle" /\ cmd'[R] = "rollback"
            /\ ledger = {} \/ (given # NoUnit /\ given \notin LedgerNames)) =>
              /\ pc'[R] = "idle"
              /\ ~outcome'[R].ok
              /\ outcome'[R].why \in {IF ledger = {} THEN "empty" ELSE "notfound", "read"}
              /\ trace'[R] = <<>>
              /\ ledger' = ledger /\ db' = db /\ effective' = effective
      ]_vars

\* With only unit 1 in the ledger, a rollback of unit 2 was refused.
C10_Witness ==
    /\ pc[R] = "idle" /\ cmd[R] = "rollback"
    /\ outcome[R] = [op |-> "rollback", ok |-> FALSE, why |-> "notfound", unit |-> 2]
    /\ trace[R] = <<>>
    /\ LedgerNames = {1}

\* C11: the step in which the downgrade of the selected unit raises ends
\* rollback_migration with failure; the ledger is unchanged, the selected
\* document is still in it and the unit still counts as applied.
C11_DowngradeFailure ==
    [][(pc[R] = "rb_downgrade" /\ FailStep(R)) =>
          /\ pc'[R] = "idle"
          /\ outcome'[R] = [op |-> "rollback", ok |-> FALSE,
                            why |-> "execute", unit |-> Target(R)]
          /\ ledger' = ledger
          /\ migration_record[R] \in ledger'
          /\ Target(R) \in LedgerNames'
          /\ Target(R) \notin SeqRange(get_pending_migrations(
                 CHOOSE a \in get_applied_migrations(ledger') : TRUE))
      ]_vars

\* The rollback of unit 1 ended when its downgrade raised.
C11_Witness ==
    /\ pc[R] = "idle" /\ cmd[R] = "rollback"
    /\ outcome[R] = [op |-> "rollback", ok |-> FALSE, why |-> "execute", unit |-> 1]
    /\ trace[R] = <<Event("load", 1), Event("downgrade", 1), Event("fail", 1)>>
    /\ 1 \in LedgerNames

\* The upgrade and the downgrade of unit u are exact inverses on a database
\* in which u's effect is (present = TRUE) or is not in place.
InverseAt(u, present) == Downgraded(u, Upgraded(u, present)) = present

\* The documents a call of get_applied_migrations returns now, in one of the
\* orders it may return them.
AppliedNow == CHOOSE a \in get_applied_migrations(ledger) : TRUE

\* C12: when a unit has been applied and then rolled back, nothing else
\* having executed unit code or written the ledger in between, and the
\* unit's upgrade and downgrade are exact inverses on the database as it was
\* before the apply, then the database and the ledger are as they were
\* before the apply: the unit has no entry and is pending again.
C12_ApplyRollbackInverse ==
    (/\ snapshot.stage = "rolled_back"
     /\ InverseAt(snapshot.unit, snapshot.db[snapshot.unit])) =>
        /\ db = snapshot.db
        /\ ledger = snapshot.ledger
        /\ snapshot.unit \notin LedgerNames
        /\ snapshot.unit \in SeqRange(get_pending_migrations(AppliedNow))

\* Unit 1, an exact inverse, was applied on top of another entry and has
\* just been rolled back.
C12_Witness ==
    /\ snapshot.stage = "rolled_back"
    /\ snapshot.unit = 1
    /\ 1 \in ExactInverse
    /\ ~snapshot.db[1]
    /\ snapshot.ledger # {}
    /\ pc[R] = "idle"
    /\ outcome[R] = [op |-> "rollback", ok |-> TRUE, why |-> "done", unit |-> 1]

\* p lists the elements of S in ascending order, each once.
IsAscendingListOf(p, S) ==
    /\ SeqRange(p) = S
    /\ \A i, j \in 1..Len(p) : i < j => p[i] < p[j]

\* C13: the pending list a migrate command computes is the ascending list
\* of exactly the units without a ledger entry at that moment (the command
\* returns at once exactly when there is none), and a batch-apply run never
\* executes the upgrade of a unit that has a ledger entry.
C13_PendingPartition ==
    /\ [][(pc[R] = "idle" /\ cmd'[R] = "migrate" /\ outcome'[R].why # "read") =>
             /\ pc'[R] = "load" =>
                    IsAscendingListOf(pending'[R], Units \ LedgerNames)
             /\ pc'[R] = "idle" =>
                    /\ outcome'[R].why = "nopending"
                    /\ Units \ LedgerNames = {}
         ]_vars
    /\ [](pc[R] = "upgrade" /\ cmd[R] = "migrate" => Current(R) \notin LedgerNames)

\* A run whose pending query left out unit 1, which has an entry, is about
\* to execute the upgrade of unit 2.
C13_Witness ==
    /\ pc[R] = "upgrade" /\ cmd[R] = "migrate"
    /\ LedgerNames = {1}
    /\ pending[R] = <<2>>

\* C14: no step of the status command changes the ledger, the database or
\* the directory or executes unit code, and the dictionary get_status
\* returns holds total = the number of discovered units, applied = the
\* number of ledger entries, pending = the number of discovered units
\* without an entry, the ledger entries (each once) and the pending names
\* in ascending order.
C14_StatusPureRead ==
    [][(pc'[R] = "get_status" \/ pc[R] = "get_status") =>
          /\ ledger' = ledger
          /\ db' = db
          /\ directory' = directory
          /\ effective' = effective
          /\ trace'[R] = <<>>
          /\ (pc[R] = "get_status" /\ outcome'[R].ok) =>
                LET info == status_info'[R]
                IN  /\ info.total = Cardinality(Units)
                    /\ info.applied = Cardinality(ledger)
                    /\ info.pending = Cardinality(Units \ LedgerNames)
                    /\ SeqRange(info.applied_migrations) = ledger
                    /\ Len(info.applied_migrations) = Cardinality(ledger)
                    /\ IsAscendingListOf(info.pending_migrations, Units \ LedgerNames)
      ]_vars

\* The status command has reported one applied and one pending unit.
C14_Witness ==
    /\ pc[R] = "idle" /\ cmd[R] = "status" /\ outcome[R].ok
    /\ status_info[R].total = NumUnits
    /\ status_info[R].applied = 1
    /\ status_info[R].pending = NumUnits - 1
    /\ Len(status_info[R].pending_migrations) = NumUnits - 1
    /\ db # [u \in Units |-> FALSE]

\* The run of runner r halted at a failing apply step.
ApplyFailed(r) ==
    /\ pc[r] = "idle" /\ cmd[r] = "migrate"
    /\ outcome[r].why \in {"load", "execute", "record"}

\* C15 (as stated): what the caller receives from a failed apply step
\* identifies the unit and the phase: two failures from which the caller
\* receives the same failed in the same phase.
C15_PhasesDistinguishable ==
    \A r1, r2 \in Runners :
        (ApplyFailed(r1) /\ ApplyFailed(r2) /\ Received(r1) = Received(r2)) =>
            outcome[r1].why = outcome[r2].why

CliCommands == {"migrate", "rollback", "status", "list"}

\* C16: a command of cli.py holds the connection while it runs and has
\* released it when it has ended, however it ended: completed, returned
\* early with nothing to do, halted at a failed unit, or aborted on a
\* raised error.
C16_ConnectionReleased ==
    /\ (pc[R] = "idle" /\ cmd[R] \in CliCommands) => ~connected[R]
    /\ (pc[R] # "idle" /\ cmd[R] \in CliCommands) => connected[R]

\* A migrate command has ended at a unit whose upgrade raised, after it had
\* applied another unit, and the connection is closed.
C16_Witness ==
    /\ pc[R] = "idle" /\ cmd[R] = "migrate"
    /\ ~outcome[R].ok /\ outcome[R].why = "execute"
    /\ Happened(R, "record", 1)
    /\ ~connected[R]

\* A migration source file in the sense of C17: a regular .py file whose
\* name is neither hidden (".") nor private-prefixed ("_", "__").
IsSourceFile(f) ==
    f.is_file /\ f.suffix = ".py" /\ f.starts \notin {".", "_", "__"}

\* C17 (as stated): the list get_migration_files returns is empty for a
\* missing directory and otherwise the ascending list of exactly the
\* entries that are migration source files: no non-source entry and no
\* hidden or private-prefixed file is in it.
C17_Discovery ==
    all_migrations[R] # NoFiles =>
        IF ~directory.exists
        THEN all_migrations[R] = <<>>
        ELSE IsAscendingListOf(all_migrations[R],
                 {f.name : f \in {g \in directory.entries : IsSourceFile(g)}})

EntriesNamed(u) == {m \in ledger : m.name = u}

\* C18: two concurrent batch-apply runs can execute the upgrade of the same
\* unit twice and write two ledger entries with its name (C18_Witness is
\* such an interleaving).  Every entry is written by a run to which the
\* unit was pending when the run read the ledger, one entry per run and
\* unit, so the second entry of a name comes from a run that read the
\* ledger before the first entry was written.
C18_DuplicatesOnlyByRace ==
    /\ [](\A u \in Units :
            Cardinality(EntriesNamed(u)) =
                Cardinality({r \in Runners : Happened(r, "record", u)}))
    /\ [][\A r \in Runners :
            (pc[r] = "idle" /\ pc'[r] = "load") =>
                \A i \in 1..Len(pending'[r]) : pending'[r][i] \notin LedgerNames
         ]_vars

\* Both runs have executed the upgrade of unit 1 and written an entry for it.
C18_Witness ==
    /\ Cardinality(EntriesNamed(1)) = 2
    /\ \A r \in Runners :
          /\ cmd[r] = "migrate"
          /\ Happened(r, "upgrade", 1)
          /\ Happened(r, "record", 1)

\* C19: the step in which the ledger insert raises, the unit's upgrade
\* having returned, ends the batch with failure in the record phase; the
\* unit's effect is in the database, the ledger has no entry for it and is
\* otherwise unchanged, so the unit is still pending; and the migrate
\* command issued next, if it finds a pending unit at all, begins with this
\* unit and executes its upgrade again once it is loaded.
C19_RecordFailure ==
    [][/\ (pc[R] = "record" /\ FailStep(R)) =>
             /\ Happened(R, "upgrade", Current(R))
             /\ pc'[R] = "idle"
             /\ outcome'[R] = [op |-> cmd[R], ok |-> FALSE,
                               why |-> "record", unit |-> Current(R)]
             /\ ledger' = ledger
             /\ db' = db
             /\ db'[Current(R)]
             /\ Current(R) \notin LedgerNames'
             /\ Current(R) \in SeqRange(get_pending_migrations(
                    CHOOSE a \in get_applied_migrations(ledger') : TRUE))
       /\ (/\ pc[R] = "idle"
           /\ outcome[R].op = "migrate" /\ outcome[R].why = "record"
           /\ pc'[R] = "load") =>
             /\ cmd'[R] = "migrate"
             /\ pending'[R][1] = outcome[R].unit
             /\ db[outcome[R].unit]
       /\ (/\ pc[R] = "upgrade" /\ cmd[R] = "migrate"
           /\ outcome[R].op = "migrate" /\ outcome[R].why = "record"
           /\ idx[R] = 1
           /\ Len(trace'[R]) > Len(trace[R])) =>
             /\ Current(R) = outcome[R].unit
             /\ trace'[R][2] = Event("upgrade", outcome[R].unit)
      ]_vars

\* The run halted at the failed insert for unit 1; the next run has loaded
\* unit 1 and executed its upgrade again.
C19_Witness ==
    /\ cmd[R] = "migrate" /\ pc[R] = "record"
    /\ outcome[R] = [op |-> "migrate", ok |-> FALSE, why |-> "record", unit |-> 1]
    /\ Current(R) = 1
    /\ Happened(R, "upgrade", 1)
    /\ 1 \notin LedgerNames
    /\ db[1]

\* C20: the step that completes a successful rollback removes from the
\* ledger exactly the selected document, which was in it, and nothing
\* else, not even another document with the same name; by then the run
\* has loaded the target and executed its downgrade once, and nothing else.
C20_EraseByIdentity ==
    [][(pc[R] = "rb_erase" /\ pc'[R] = "idle" /\ outcome'[R].ok) =>
          /\ migration_record[R] \in ledger
          /\ ledger' = ledger \ {migration_record[R]}
          /\ Cardinality(ledger') = Cardinality(ledger) - 1
          /\ trace'[R] = <<Event("load", Target(R)),
                           Event("downgrade", Target(R)),
                           Event("erase", Target(R))>>
          /\ outcome'[R] = [op |-> "rollback", ok |-> TRUE,
                            why |-> "done", unit |-> Target(R)]
      ]_vars

\* A rollback of unit 1 has succeeded and the ledger still holds the other
\* document named 1.
C20_Witness ==
    /\ pc[R] = "idle"
    /\ outcome[R] = [op |-> "rollback", ok |-> TRUE, why |-> "done", unit |-> 1]
    /\ trace[R] = <<Event("load", 1), Event("downgrade", 1), Event("erase", 1)>>
    /\ Cardinality(EntriesNamed(1)) = 1
    /\ Cardinality(ledger) = 1
    /\ prev[R].op = "apply"

\* C21: under a strictly increasing clock, with migrate commands and
\* rollback commands without a name only, the names in the ledger are the
\* first K units in name order whenever no command is running, and the
\* document a rollback selects is the one with the greatest name in the
\* ledger.
C21_PrefixUnderMonotoneClock ==
    /\ pc[R] = "idle" => IsPrefix(LedgerNames)
    /\ InRollback(R) =>
          /\ migration_record[R] \in ledger
          /\ \A m \in ledger : m.name <= Target(R)

\* After the whole directory was applied and the last unit rolled back, a
\* second rollback has selected the unit before it.
C21_Witness ==
    /\ pc[R] = "rb_load"
    /\ prev[R] = [op |-> "rollback", ok |-> TRUE]
    /\ LedgerNames = {u \in Units : u < NumUnits}
    /\ Target(R) = NumUnits - 1

\* C22: in every state the migrate and rollback commands (and the
\* read-only commands) reach, whatever order get_applied_migrations returns
\* the documents in, the counts of get_status satisfy applied + pending =
\* total, and every name in the ledger is the name of a discovered file.
C22_StatusCountsAddUp ==
    /\ \A applied \in get_applied_migrations(ledger) :
          get_status(applied).applied + get_status(applied).pending
              = get_status(applied).total
    /\ LedgerNames \subseteq SeqRange(get_migration_files)

\* A named rollback has left a gap: the last unit has an entry, the first
\* has none, and the status command reports one applied unit.
C22_Witness ==
    /\ pc[R] = "idle" /\ cmd[R] = "status" /\ outcome[R].ok
    /\ LedgerNames = {NumUnits}
    /\ status_info[R].applied = 1
    /\ status_info[R].pending = NumUnits - 1
    /\ status_info[R].total = NumUnits

====
